---- MODULE Spec2Model ----
(***************************************************************************)
(* State-machine model of the HydePark -> HikCentral synchroniser          *)
(* (src/main.py): the JSON ledger (WorkersDatabase), the directory calls   *)
(* of HikCentralAPI, the status reports of SupabaseAPI and the decisions   *)
(* of SyncController.process_worker / handle_event.                        *)
(*                                                                         *)
(* Conventions                                                             *)
(*  - A date string 'YYYY-MM-DD' is the integer YYYYMMDD: Python compares  *)
(*    the strings lexicographically, which for this fixed-width format is  *)
(*    the numeric order.                                                   *)
(*  - None is Python's None; Missing marks a key the payload dict lacks.   *)
(*  - Ledger records keep the fields the decisions read or write; the      *)
(*    timestamp fields (created_at, updated_at, blocked_at) and the two    *)
(*    image paths are write-only and left out.                             *)
(*  - Every remote call may succeed or fail; the operators that model the  *)
(*    handlers return the SET of states the call outcomes can produce.     *)
(***************************************************************************)
EXTENDS Integers, Sequences, FiniteSets, TLC

VARIABLES
    workers,      \* WorkersDatabase.data['workers']: the ledger, a list of records
    persons,      \* person ids alive in the HikCentral directory
    issued,       \* how many person ids the directory has handed out
    before,       \* the ledger as it was when the handler that ran last was entered
    lastOp,       \* the handler that ran last, with its argument
    downloads,    \* image downloads attempted by the handler that ran last
    hikCalls,     \* directory calls issued by the handler that ran last
    reports,      \* update_worker_status calls issued by the handler that ran last
    raised,       \* TRUE iff the handler that ran last ended by raising
    processed,    \* the payloads the handler that ran last passed to process_worker
    tombstonedBy, \* history: per ledger record, what set its tombstone flag
    sigIn,        \* the arguments of HikCentralAPI._calculate_signature
    sigOut,       \* what _calculate_signature computed for sigIn
    testOut,      \* what signature_test.build_string_to_sign built for sigIn
    pc,           \* where the main thread is in main()
    trigger,      \* who called the sync() that ran last: the startup or the timer
    batch,        \* the events that sync() fetched
    cursor,       \* position in batch of the event sync() handles next
    now,          \* the wall clock
    nextRun,      \* when the scheduled job is next due; None before it is scheduled
    passNo,       \* how many times sync() was entered
    running,      \* the sync() executions in flight, by their number
    last_sync_started,
    last_sync_finished,
    last_sync_error,
    fetched,      \* history: how the fetch of the pass that ran last ended
    handled,      \* history: the positions of batch handled by that pass, and how
    response      \* what the dashboard thread served last

ledgerVars == <<workers, persons, issued, before, lastOp, downloads, hikCalls, reports, raised,
               processed, tombstonedBy>>

sigVars == <<sigIn, sigOut, testOut>>

statusVars == <<last_sync_started, last_sync_finished, last_sync_error>>

mainVars == <<pc, trigger, batch, cursor, nextRun, passNo, running, fetched, handled>>

passVars == <<mainVars, statusVars, now, response>>

vars == <<ledgerVars, sigVars, passVars>>

----------------------------------------------------------------------------
(* Bounds of the model                                                     *)

MaxDate == 1
MaxEventWorkers == 2
MaxBatch == 2
MaxPasses == 3
MaxTime == 3

----------------------------------------------------------------------------
(* Values                                                                  *)

None == 0
Missing == 0 - 1

DefaultValidFrom == 20250101
DefaultValidTo == 20351231

DateOf(i) == 20160101 + i * 100000
Dates == { DateOf(i) : i \in 0..MaxDate }

WorkerIds == {"w1", "w2"}
NationalIds == {"n1"}

\* the full name of the person a national id belongs to
FullNameOf(national_id) ==
    IF national_id = "n1" THEN <<"Ali", "Hassan">> ELSE <<"Omar", "Said">>

WindowValues == Dates \cup {None, Missing}

\* the worker dict process_worker receives
WorkerPayloads ==
    { [id |-> i, nationalIdNumber |-> n, fullName |-> FullNameOf(n),
       blocked |-> b, validFrom |-> f, validTo |-> t] :
        i \in WorkerIds, n \in NationalIds, b \in BOOLEAN,
        f \in WindowValues, t \in WindowValues }

\* dict.get(key, default) on a payload field: the default only replaces a missing key
Get(v, default) == IF v = Missing THEN default ELSE v

\* min / max raise TypeError when either argument is None
Comparable(a, b) == a # None /\ b # None
\* a merge that overwrites the stored bound with the incoming one
MinTakesIncoming(a, b) == b
Min(a, b) == IF b < a THEN b ELSE a
\* a merge that replaces the stored end by the incoming one
MaxTakesIncoming(a, b) == b
Max(a, b) == IF b > a THEN b ELSE a

----------------------------------------------------------------------------
(* WorkersDatabase                                                         *)

\* index of the first record with that national id, 0 when there is none
IndexByNationalId(ws, national_id) ==
    LET hits == { i \in 1..Len(ws) : ws[i].nationalIdNumber = national_id }
    IN  IF hits = {} THEN 0 ELSE CHOOSE i \in hits : \A j \in hits : i <= j

IndexById(ws, worker_id) ==
    LET hits == { i \in 1..Len(ws) : ws[i].id = worker_id }
    IN  IF hits = {} THEN 0 ELSE CHOOSE i \in hits : \A j \in hits : i <= j

\* a lookup that compares the national id with the records' 'id' key
get_worker_by_wrong_key(ws, national_id) == IndexById(ws, national_id)
get_worker_by_national_id(ws, national_id) == IndexByNationalId(ws, national_id)

get_worker_by_id(ws, worker_id) == IndexById(ws, worker_id)

is_worker_processed(ws, worker_id) == get_worker_by_id(ws, worker_id) # 0

\* dict.update: the keys of updates overwrite, the others stay
DictUpdate(rec, updates) ==
    [k \in DOMAIN rec |-> IF k \in DOMAIN updates THEN updates[k] ELSE rec[k]]

update_worker_by_national_id(ws, national_id, updates) ==
    LET i == IndexByNationalId(ws, national_id)
    IN  IF i = 0 THEN ws ELSE [ws EXCEPT ![i] = DictUpdate(@, updates)]

\* an add_worker that keeps one record per worker id, replacing the older one
add_worker_replacing(ws, worker_data) ==
    Append(SelectSeq(ws, LAMBDA rec : rec.id # worker_data.id), worker_data)

add_worker(ws, worker_data) == Append(ws, worker_data)

\* a blocked branch that forgets the tombstone check
IsTombstonedNever(existing) == FALSE
\* existing.get('hikcentral_deleted')
IsTombstoned(existing) == existing.hikcentral_deleted

\* existing.get('hikcentral_id')
HasRemoteId(existing) == existing.hikcentral_id # None

----------------------------------------------------------------------------
(* HikCentralAPI: every operation appends the call to hikCalls; ok is the  *)
(* outcome of _make_request (result code '0' or not)                       *)

_format_time(date_str, start) ==
    <<date_str, IF start THEN "T00:00:00" ELSE "T23:59:59">>

NoTime == <<>>

\* one call of a directory operation: ok is whether _make_request's result
\* carries code '0', success is whether the operation's return value tells its
\* caller that it succeeded (a person id, or True)
HikCall(op, person_id, person_code, begin, end, ok, success) ==
    [op |-> op, personId |-> person_id, personCode |-> person_code,
     beginTime |-> begin, endTime |-> end, ok |-> ok, success |-> success]

\* the directory hands out the next person id when the creation succeeds
add_person(st, worker, ok) ==
    LET begin_date == Get(worker.validFrom, DefaultValidFrom)
        end_date == Get(worker.validTo, DefaultValidTo)
        person_id == IF ok THEN st.issued + 1 ELSE None
    IN  [st EXCEPT
            !.hikCalls = Append(@, HikCall("add_person", person_id, worker.nationalIdNumber,
                                           _format_time(begin_date, TRUE),
                                           _format_time(end_date, FALSE), ok,
                                           person_id # None)),
            !.issued = IF ok THEN @ + 1 ELSE @,
            !.persons = IF ok THEN @ \cup {person_id} ELSE @]

add_to_privilege_group(st, person_id, ok) ==
    [st EXCEPT !.hikCalls = Append(@, HikCall("add_to_privilege_group", person_id, None,
                                              NoTime, NoTime, ok, ok))]

update_person(st, person_id, worker, begin_date, end_date, ok) ==
    [st EXCEPT !.hikCalls = Append(@, HikCall("update_person", person_id,
                                              worker.nationalIdNumber,
                                              _format_time(begin_date, TRUE),
                                              _format_time(end_date, FALSE), ok, ok))]

\* lines 358-372: the person leaves the privilege group and stays in the
\* directory; the result of the request is dropped and True is returned
delete_person(st, person_id, ok) ==
    [st EXCEPT !.hikCalls = Append(@, HikCall("delete_person", person_id, None,
                                              NoTime, NoTime, ok, TRUE))]

\* delete_person called in the place of delete_person_full
delete_person_from_group(st, person_id, ok) == delete_person(st, person_id, ok)

delete_person_full(st, person_id, ok) ==
    [st EXCEPT
        !.hikCalls = Append(@, HikCall("delete_person_full", person_id, None,
                                       NoTime, NoTime, ok, ok)),
        !.persons = IF ok THEN @ \ {person_id} ELSE @]

----------------------------------------------------------------------------
(* SupabaseAPI and ImageDownloader                                         *)

\* a report whose failure takes the newest record out of the ledger again
update_worker_status_or_undo(st, worker_id, status, external_id) ==
    { [st EXCEPT !.reports = Append(@, [workerId |-> worker_id, status |-> status,
                                        externalId |-> external_id, ok |-> ok,
                                        ledger |-> st.workers]),
                 !.workers = IF ok \/ @ = <<>> THEN @ ELSE SubSeq(@, 1, Len(@) - 1)] :
        ok \in BOOLEAN }

\* the report may fail; its result is ignored by every caller. The entry logged
\* for the call keeps the ledger as it is when the call is made.
update_worker_status(st, worker_id, status, external_id) ==
    { [st EXCEPT !.reports = Append(@, [workerId |-> worker_id, status |-> status,
                                        externalId |-> external_id, ok |-> ok,
                                        ledger |-> st.workers])] :
        ok \in BOOLEAN }

download_image(st, what, ok) ==
    [st EXCEPT !.downloads = Append(@, [image |-> what, ok |-> ok])]

----------------------------------------------------------------------------
(* SyncController.process_worker                                           *)

\* lines 580-612: the worker is blocked and the ledger knows its national id
BlockedBranch(st, worker, ex) ==
    LET worker_id == worker.id
        national_id == worker.nationalIdNumber
        existing_by_nat == st.workers[ex]
    IN  IF IsTombstoned(existing_by_nat)
        THEN update_worker_status(
                [st EXCEPT !.workers = update_worker_by_national_id(@, national_id,
                                            [blocked |-> TRUE])],
                worker_id, "blocked", existing_by_nat.hikcentral_id)
        ELSE IF HasRemoteId(existing_by_nat)
        THEN UNION {
                LET s1 == delete_person_full(st, existing_by_nat.hikcentral_id, ok)
                IN  IF ok
                    THEN update_worker_status(
                            [s1 EXCEPT !.workers = update_worker_by_national_id(@, national_id,
                                            [blocked |-> TRUE, hikcentral_deleted |-> TRUE])],
                            worker_id, "blocked", existing_by_nat.hikcentral_id)
                    ELSE {s1}
                : ok \in BOOLEAN }
        ELSE update_worker_status(
                [st EXCEPT !.workers =
                    IF IndexByNationalId(@, national_id) # 0
                    THEN update_worker_by_national_id(@, national_id, [blocked |-> TRUE])
                    ELSE add_worker(@, [id |-> worker_id, nationalIdNumber |-> national_id,
                                        fullName |-> worker.fullName, hikcentral_id |-> None,
                                        status |-> "blocked", blocked |-> TRUE,
                                        hikcentral_deleted |-> FALSE,
                                        validFrom |-> Missing, validTo |-> Missing])],
                worker_id, "blocked", None)

\* an update branch that tells the registry before it writes the ledger
UpdateBranchReportsFirst(st, worker, ex) ==
    LET worker_id == worker.id
        national_id == worker.nationalIdNumber
        existing_by_nat == st.workers[ex]
        existing_begin == Get(existing_by_nat.validFrom, Get(worker.validFrom, DefaultValidFrom))
        existing_end == Get(existing_by_nat.validTo, Get(worker.validTo, DefaultValidTo))
        incoming_begin == Get(worker.validFrom, existing_begin)
        incoming_end == Get(worker.validTo, existing_end)
        merged_begin == Min(existing_begin, incoming_begin)
        merged_end == Max(existing_end, incoming_end)
    IN  IF ~Comparable(existing_begin, incoming_begin) \/ ~Comparable(existing_end, incoming_end)
        THEN {[st EXCEPT !.raised = TRUE]}
        ELSE UNION {
                LET s1 == update_person(st, existing_by_nat.hikcentral_id, worker,
                                        merged_begin, merged_end, ok)
                IN  IF ok
                    THEN { [s2 EXCEPT !.workers = update_worker_by_national_id(@, national_id,
                                [fullName |-> worker.fullName, status |-> "approved",
                                 blocked |-> FALSE, hikcentral_deleted |-> FALSE,
                                 validFrom |-> merged_begin, validTo |-> merged_end])] :
                            s2 \in update_worker_status(s1, worker_id, "approved",
                                                        existing_by_nat.hikcentral_id) }
                    ELSE {s1}
                : ok \in BOOLEAN }

\* lines 631-654: the ledger holds a remote id for the national id
UpdateBranch(st, worker, ex) ==
    LET worker_id == worker.id
        national_id == worker.nationalIdNumber
        existing_by_nat == st.workers[ex]
        existing_begin == Get(existing_by_nat.validFrom, Get(worker.validFrom, DefaultValidFrom))
        existing_end == Get(existing_by_nat.validTo, Get(worker.validTo, DefaultValidTo))
        incoming_begin == Get(worker.validFrom, existing_begin)
        incoming_end == Get(worker.validTo, existing_end)
        merged_begin == Min(existing_begin, incoming_begin)
        merged_end == Max(existing_end, incoming_end)
    IN  IF ~Comparable(existing_begin, incoming_begin) \/ ~Comparable(existing_end, incoming_end)
        THEN {[st EXCEPT !.raised = TRUE]}
        ELSE UNION {
                LET s1 == update_person(st, existing_by_nat.hikcentral_id, worker,
                                        merged_begin, merged_end, ok)
                IN  IF ok
                    THEN update_worker_status(
                            [s1 EXCEPT !.workers = update_worker_by_national_id(@, national_id,
                                [fullName |-> worker.fullName, status |-> "approved",
                                 blocked |-> FALSE, hikcentral_deleted |-> FALSE,
                                 validFrom |-> merged_begin, validTo |-> merged_end])],
                            worker_id, "approved", existing_by_nat.hikcentral_id)
                    ELSE {s1}
                : ok \in BOOLEAN }

\* an add branch that undoes the creation when the privilege group refuses
AddBranchRollsBack(st, worker) ==
    UNION {
        LET s1 == add_person(st, worker, ok)
            person_id == IF ok THEN s1.issued ELSE None
        IN  IF person_id # None
            THEN UNION {
                    LET s2 == add_to_privilege_group(s1, person_id, inGroup)
                        worker_data ==
                            [id |-> worker.id, nationalIdNumber |-> worker.nationalIdNumber,
                             fullName |-> worker.fullName, hikcentral_id |-> person_id,
                             status |-> "approved", blocked |-> FALSE,
                             hikcentral_deleted |-> FALSE,
                             validFrom |-> Get(worker.validFrom, DefaultValidFrom),
                             validTo |-> Get(worker.validTo, DefaultValidTo)]
                    IN  IF inGroup
                        THEN update_worker_status(
                                [s2 EXCEPT !.workers = add_worker(@, worker_data)],
                                worker.id, "approved", person_id)
                        ELSE {delete_person_full(s2, person_id, TRUE)}
                    : inGroup \in BOOLEAN }
            ELSE {s1}
        : ok \in BOOLEAN }

\* lines 655-678: no remote id is known for the national id
AddBranch(st, worker) ==
    UNION {
        LET s1 == add_person(st, worker, ok)
            person_id == IF ok THEN s1.issued ELSE None
        IN  IF person_id # None
            THEN UNION {
                    LET s2 == add_to_privilege_group(s1, person_id, inGroup)
                        worker_data ==
                            [id |-> worker.id, nationalIdNumber |-> worker.nationalIdNumber,
                             fullName |-> worker.fullName, hikcentral_id |-> person_id,
                             status |-> "approved", blocked |-> FALSE,
                             hikcentral_deleted |-> FALSE,
                             validFrom |-> Get(worker.validFrom, DefaultValidFrom),
                             validTo |-> Get(worker.validTo, DefaultValidTo)]
                    IN  update_worker_status(
                            [s2 EXCEPT !.workers = add_worker(@, worker_data)],
                            worker.id, "approved", person_id)
                    : inGroup \in BOOLEAN }
            ELSE {s1}
        : ok \in BOOLEAN }

\* a provisioning that goes on to the directory although a download failed
ProvisionBranchIgnoringDownloads(st, worker, ex) ==
    UNION {
        LET s1 == download_image(st, "facePhoto", faceOk)
        IN  UNION {
                LET s2 == download_image(s1, "nationalIdImage", cardOk)
                IN  IF ex # 0 /\ HasRemoteId(st.workers[ex])
                    THEN UpdateBranch(s2, worker, ex)
                    ELSE AddBranch(s2, worker)
                : cardOk \in BOOLEAN }
        : faceOk \in BOOLEAN }

\* lines 614-678: download both images, then update or add
ProvisionBranch(st, worker, ex) ==
    UNION {
        LET s1 == download_image(st, "facePhoto", faceOk)
        IN  IF ~faceOk THEN {s1}
            ELSE UNION {
                    LET s2 == download_image(s1, "nationalIdImage", cardOk)
                    IN  IF ~cardOk THEN {s2}
                        ELSE IF ex # 0 /\ HasRemoteId(st.workers[ex])
                             THEN UpdateBranch(s2, worker, ex)
                             ELSE AddBranch(s2, worker)
                    : cardOk \in BOOLEAN }
        : faceOk \in BOOLEAN }

\* a process_worker that records a blocked worker the ledger does not know
process_worker_recording_blocked(st, worker) ==
    LET ex == get_worker_by_national_id(st.workers, worker.nationalIdNumber)
        entered == [st EXCEPT !.processed = Append(@, worker)]
    IN  IF worker.blocked /\ ex # 0
        THEN BlockedBranch(entered, worker, ex)
        ELSE IF worker.blocked
        THEN update_worker_status(
                [entered EXCEPT !.workers =
                    add_worker(@, [id |-> worker.id,
                                   nationalIdNumber |-> worker.nationalIdNumber,
                                   fullName |-> worker.fullName, hikcentral_id |-> None,
                                   status |-> "blocked", blocked |-> TRUE,
                                   hikcentral_deleted |-> FALSE,
                                   validFrom |-> Missing, validTo |-> Missing])],
                worker.id, "blocked", None)
        ELSE ProvisionBranch(entered, worker, ex)

\* the states process_worker can leave, one per combination of call outcomes
process_worker(st, worker) ==
    LET ex == get_worker_by_national_id(st.workers, worker.nationalIdNumber)
        entered == [st EXCEPT !.processed = Append(@, worker)]
    IN  IF worker.blocked /\ ex # 0
        THEN BlockedBranch(entered, worker, ex)
        ELSE ProvisionBranch(entered, worker, ex)

----------------------------------------------------------------------------
(* SyncController.handle_event                                             *)

CreateTypes == {"worker.created", "workers.bulk_created", "worker.unblocked",
                "unit.workers_unblocked"}
BlockTypes == {"worker.blocked", "unit.workers_blocked"}
DeleteTypes == {"worker.deleted", "user.deleted_workers_deleted",
                "user.expired_workers_deleted", "worker.revoked"}
EventTypes == CreateTypes \cup BlockTypes \cup DeleteTypes \cup {"worker.renamed"}

\* a worker payload embedded in an event
EventWorkers ==
    { [workerId |-> i, nationalIdNumber |-> n, fullName |-> FullNameOf(n), blocked |-> b] :
        i \in WorkerIds, n \in NationalIds, b \in BOOLEAN }

SeqsUpTo(S, n) == UNION { [1..k -> S] : k \in 0..n }

Events == { [type |-> t, workers |-> ws] :
              t \in EventTypes, ws \in SeqsUpTo(EventWorkers, MaxEventWorkers) }

_map_event_worker(ew) ==
    [id |-> ew.workerId, nationalIdNumber |-> ew.nationalIdNumber,
     fullName |-> ew.fullName, blocked |-> ew.blocked,
     validFrom |-> None, validTo |-> None]

\* a deletion branch that leaves alone the entries that are already blocked
DeleteWorkerUnlessBlocked(st, w) ==
    LET ex == get_worker_by_national_id(st.workers, w.nationalIdNumber)
    IN  IF ex # 0 /\ HasRemoteId(st.workers[ex]) /\ ~st.workers[ex].blocked
        THEN { [delete_person_full(st, st.workers[ex].hikcentral_id, ok) EXCEPT
                  !.workers = update_worker_by_national_id(@, w.nationalIdNumber,
                                  [blocked |-> TRUE, hikcentral_deleted |-> TRUE])] :
                ok \in BOOLEAN }
        ELSE {st}
\* lines 552-561: one worker of a deletion/revocation event
DeleteWorker(st, w) ==
    LET ex == get_worker_by_national_id(st.workers, w.nationalIdNumber)
    IN  IF ex # 0 /\ HasRemoteId(st.workers[ex])
        THEN { [delete_person_full(st, st.workers[ex].hikcentral_id, ok) EXCEPT
                  !.workers = update_worker_by_national_id(@, w.nationalIdNumber,
                                  [blocked |-> TRUE, hikcentral_deleted |-> TRUE])] :
                ok \in BOOLEAN }
        ELSE {st}

\* the body of the loop the event type selects, for one embedded worker
HandleEventWorker(st, et, ew) ==
    LET w == _map_event_worker(ew)
    IN  IF et \in CreateTypes THEN process_worker(st, [w EXCEPT !.blocked = FALSE])
        ELSE IF et \in BlockTypes THEN process_worker(st, [w EXCEPT !.blocked = TRUE])
        ELSE IF et \in DeleteTypes THEN DeleteWorker(st, w)
        ELSE {st}

\* the for loop over event['workers'] from position i on; an exception ends it
RECURSIVE HandleEventFrom(_, _, _)
HandleEventFrom(st, event, i) ==
    IF i > Len(event.workers) \/ st.raised
    THEN {st}
    ELSE UNION { HandleEventFrom(s, event, i + 1) :
                    s \in HandleEventWorker(st, event.type, event.workers[i]) }

handle_event(st, event) ==
    IF event.type \in CreateTypes \cup BlockTypes \cup DeleteTypes
    THEN HandleEventFrom(st, event, 1)
    ELSE {st}

----------------------------------------------------------------------------
(* HikCentralAPI request signing, and signature_test.py                    *)

\* a Python str as the sequence of its pieces: '' is the empty sequence, and
\* concatenation is \o
Str(s) == IF s = "" THEN <<>> ELSE <<s>>

\* sep.join(parts)
RECURSIVE Join(_, _)
Join(parts, sep) ==
    IF parts = <<>> THEN <<>>
    ELSE IF Len(parts) = 1 THEN parts[1]
    ELSE parts[1] \o <<sep>> \o Join(Tail(parts), sep)

Methods == {"POST", "GET"}
Accepts == {"application/json", "*/*"}
ContentTypes == {"application/json;charset=UTF-8", "application/json"}
Uris == {"/artemis/api/common/v1/version", "/artemis:443/api/common/v1/version"}
Bodies == {"", "{}", "{\"pageNo\":1,\"pageSize\":1}"}
Timestamps == {"1592894521052", "1592894521053"}
Nonces == {"0049395a-85a5-4991-8240-148dcf3e3612", "11111111-85a5-4991-8240-148dcf3e3612"}
AppKeys == {"22452825", "22452826"}

SignInputs ==
    [method : Methods, accept : Accepts, content_type : ContentTypes, uri : Uris,
     body : Bodies, timestamp : Timestamps, nonce : Nonces, app_key : AppKeys]

\* base64.b64encode(hashlib.md5(body.encode('utf-8')).digest()): 24 characters,
\* never the empty string
Base64Md5(body) ==
    CASE body = "" -> "1B2M2Y8AsgTpgAmY7PhCfg=="
      [] body = "{}" -> "mZFLkyvTelC5g8XnyQrpOw=="
      [] OTHER -> "80pg4sMq2AzEzu/jXWdy1Q=="

\* base64 of the HmacSHA256 of msg under the app secret: msg under a seal
HmacSha256(msg) == <<"HmacSHA256(">> \o msg \o <<")">>

\* parts that keep the Content-MD5 position when there is no body
SignaturePartsWithBlankMd5(in, content_md5) ==
    << Str(in.method), Str(in.accept), Str(content_md5), Str(in.content_type),
       <<"x-ca-key:">> \o Str(in.app_key),
       <<"x-ca-nonce:">> \o Str(in.nonce),
       <<"x-ca-timestamp:">> \o Str(in.timestamp),
       Str(in.uri) >>
\* lines 153-161: the list of lines to sign
SignatureParts(in, content_md5) ==
    << Str(in.method), Str(in.accept) >>
    \o (IF content_md5 # "" THEN << Str(content_md5) >> ELSE << >>)
    \o << Str(in.content_type),
          <<"x-ca-key:">> \o Str(in.app_key),
          <<"x-ca-nonce:">> \o Str(in.nonce),
          <<"x-ca-timestamp:">> \o Str(in.timestamp),
          Str(in.uri) >>

_calculate_signature(in) ==
    LET content_md5 == IF in.body # "" THEN Base64Md5(in.body) ELSE ""
        string_to_sign == Join(SignatureParts(in, content_md5), "\n")
    IN  [done |-> TRUE, signature |-> HmacSha256(string_to_sign),
         content_md5 |-> content_md5, string_to_sign |-> string_to_sign]

\* signature_test.py, lines 17-25, its module-level values being those of in
build_string_to_sign(in, uri_for_sign) ==
    Join(<< Str(in.method), Str(in.accept), Str(in.content_type),
            <<"x-ca-key:">> \o Str(in.app_key),
            <<"x-ca-nonce:">> \o Str(in.nonce),
            <<"x-ca-timestamp:">> \o Str(in.timestamp),
            Str(uri_for_sign) >>, "\n")

NotDone == [done |-> FALSE]

----------------------------------------------------------------------------
(* The state machine                                                       *)

Idle == [kind |-> "none"]

\* the program state a handler starts from: its logs are empty
Entry == [workers |-> workers, persons |-> persons, issued |-> issued,
          downloads |-> <<>>, hikCalls |-> <<>>, reports |-> <<>>, raised |-> FALSE,
          processed |-> <<>>]

\* history of the tombstone flags: a flag that was set on entry keeps its cause,
\* a flag the handler set is caused by the kind of handler
TombstoneCauses(ws, op) ==
    [i \in 1..Len(ws) |->
        IF ~ws[i].hikcentral_deleted THEN "none"
        ELSE IF i <= Len(workers) /\ workers[i].hikcentral_deleted THEN tombstonedBy[i]
        ELSE IF op.kind = "handle_event" /\ op.event.type \in DeleteTypes THEN "deleted"
        ELSE "blocked"]

\* the handler returns (or raises) to its caller in state st
Leave(st, op) ==
    /\ before' = workers
    /\ workers' = st.workers
    /\ persons' = st.persons
    /\ issued' = st.issued
    /\ downloads' = st.downloads
    /\ hikCalls' = st.hikCalls
    /\ reports' = st.reports
    /\ raised' = st.raised
    /\ processed' = st.processed
    /\ lastOp' = op
    /\ tombstonedBy' = TombstoneCauses(st.workers, op)
    /\ UNCHANGED <<sigVars, passVars>>

\* WorkersDatabase.load on a missing file, nothing called yet
LedgerInit ==
    /\ workers = <<>>
    /\ before = <<>>
    /\ persons = {}
    /\ issued = 0
    /\ lastOp = Idle
    /\ downloads = <<>>
    /\ hikCalls = <<>>
    /\ reports = <<>>
    /\ raised = FALSE
    /\ processed = <<>>
    /\ tombstonedBy = <<>>

\* no request is being signed
SignIdle ==
    /\ sigIn = NotDone
    /\ sigOut = NotDone
    /\ testOut = NotDone

\* SyncController.__init__ and the start of main(): no pass yet, no job
\* scheduled, no dashboard thread
PassIdle ==
    /\ pc = "start"
    /\ trigger = "none"
    /\ batch = <<>>
    /\ cursor = 1
    /\ now = 1
    /\ nextRun = None
    /\ passNo = 0
    /\ running = {}
    /\ last_sync_started = None
    /\ last_sync_finished = None
    /\ last_sync_error = None
    /\ fetched = "none"
    /\ handled = <<>>
    /\ response = [done |-> FALSE]

Init == LedgerInit /\ SignIdle /\ PassIdle

\* SyncController.process_worker(worker)
ProcessWorker ==
    /\ lastOp = Idle
    /\ \E worker \in WorkerPayloads :
        \E st \in process_worker(Entry, worker) :
            Leave(st, [kind |-> "process_worker", worker |-> worker,
                       again |-> FALSE, prevOk |-> FALSE])

\* SyncController.process_worker(worker) on the payload it has just processed:
\* the registry delivers the same worker once more. prevOk records whether
\* every call of the previous run succeeded.
ReprocessWorker ==
    /\ lastOp.kind = "process_worker"
    /\ \E st \in process_worker(Entry, lastOp.worker) :
            Leave(st, [kind |-> "process_worker", worker |-> lastOp.worker,
                       again |-> TRUE,
                       prevOk |-> /\ \A i \in 1..Len(downloads) : downloads[i].ok
                                  /\ \A i \in 1..Len(hikCalls) : hikCalls[i].ok
                                  /\ \A i \in 1..Len(reports) : reports[i].ok])

\* SyncController.handle_event(event)
HandleEvent ==
    /\ lastOp = Idle
    /\ \E event \in Events :
        \E st \in handle_event(Entry, event) :
            Leave(st, [kind |-> "handle_event", event |-> event])

\* control is back in the caller, which goes on to its next item: what the
\* finished call logged is no longer looked at
Continue ==
    /\ lastOp # Idle
    /\ lastOp' = Idle
    /\ before' = workers
    /\ downloads' = <<>>
    /\ hikCalls' = <<>>
    /\ reports' = <<>>
    /\ raised' = FALSE
    /\ processed' = <<>>
    /\ UNCHANGED <<workers, persons, issued, tombstonedBy>>
    /\ UNCHANGED <<sigVars, passVars>>

Next == ProcessWorker \/ ReprocessWorker \/ HandleEvent \/ Continue

Spec == Init /\ [][Next]_vars

----------------------------------------------------------------------------
(* The same handlers over a registry of two persons                        *)

TwoNationalIds == {"n1", "n2"}

\* worker dicts without validity window
WorkerPayloadsOfTwo ==
    { [id |-> i, nationalIdNumber |-> n, fullName |-> FullNameOf(n),
       blocked |-> b, validFrom |-> Missing, validTo |-> Missing] :
        i \in WorkerIds, n \in TwoNationalIds, b \in BOOLEAN }

EventWorkersOfTwo ==
    { [workerId |-> i, nationalIdNumber |-> n, fullName |-> FullNameOf(n), blocked |-> b] :
        i \in WorkerIds, n \in TwoNationalIds, b \in BOOLEAN }

\* events that embed one worker, or none
EventsOfTwo == { [type |-> t, workers |-> ws] :
                  t \in EventTypes, ws \in SeqsUpTo(EventWorkersOfTwo, 1) }

\* SyncController.process_worker(worker)
ProcessWorkerOfTwo ==
    /\ lastOp = Idle
    /\ \E worker \in WorkerPayloadsOfTwo :
        \E st \in process_worker(Entry, worker) :
            Leave(st, [kind |-> "process_worker", worker |-> worker,
                       again |-> FALSE, prevOk |-> FALSE])

\* SyncController.handle_event(event)
HandleEventOfTwo ==
    /\ lastOp = Idle
    /\ \E event \in EventsOfTwo :
        \E st \in handle_event(Entry, event) :
            Leave(st, [kind |-> "handle_event", event |-> event])

NextOfTwo == ProcessWorkerOfTwo \/ HandleEventOfTwo \/ Continue

SpecOfTwo == Init /\ [][NextOfTwo]_vars

----------------------------------------------------------------------------
(* Signing one request                                                     *)

InitSign == LedgerInit /\ PassIdle /\ sigIn \in SignInputs /\ sigOut = NotDone /\ testOut = NotDone

\* HikCentralAPI._calculate_signature on the arguments sigIn
CalculateSignature ==
    /\ sigOut = NotDone
    /\ sigOut' = _calculate_signature(sigIn)
    /\ UNCHANGED <<ledgerVars, passVars, sigIn, testOut>>

\* signature_test.py run with the same values
BuildStringToSign ==
    /\ testOut = NotDone
    /\ testOut' = [done |-> TRUE, string_to_sign |-> build_string_to_sign(sigIn, sigIn.uri)]
    /\ UNCHANGED <<ledgerVars, passVars, sigIn, sigOut>>

NextSign == CalculateSignature \/ BuildStringToSign

SpecSign == InitSign /\ [][NextSign]_vars

----------------------------------------------------------------------------
(* main(): the startup pass, the scheduler loop and the dashboard thread   *)

SyncInterval == 1

\* str(e) of the exception the outer handler of sync() caught
NotIterableError == 1

\* events with one worker payload, one type of each branch of handle_event
PassEvents ==
    { [type |-> t,
       workers |-> << [workerId |-> "w1", nationalIdNumber |-> "n1",
                       fullName |-> FullNameOf("n1"), blocked |-> FALSE] >>] :
        t \in {"worker.created", "worker.blocked", "worker.deleted"} }

Batches == SeqsUpTo(PassEvents, MaxBatch)

\* what sync() gets from data.get('events', []): the events of a successful
\* fetch; the empty list get_pending_events returns when the request failed; a
\* value that is not a list of events
FetchOutcomes == {"ok", "failed", "garbled"}

\* a scheduler that runs the job on a thread of its own
MainThreadAlwaysFree(at) == TRUE
\* schedule.run_pending() is called by the main thread, between two jobs
MainThreadFree(at) == at = "loop"

\* the job is due: schedule.run_pending() runs it
Due == nextRun # None /\ nextRun <= now

\* lines 680-688: sync() is entered, records its start and fetches
BeginSync(by) ==
    /\ passNo' = passNo + 1
    /\ running' = running \cup {passNo + 1}
    /\ trigger' = by
    /\ last_sync_started' = now
    /\ handled' = <<>>
    /\ cursor' = 1
    /\ \E outcome \in FetchOutcomes :
        /\ fetched' = outcome
        /\ IF outcome = "ok"
           THEN \E events \in Batches : batch' = events
           ELSE batch' = <<>>
        /\ pc' = IF outcome = "garbled" THEN "iterating" ELSE "events"
    /\ UNCHANGED <<last_sync_finished, last_sync_error, now, nextRun, response>>
    /\ UNCHANGED <<ledgerVars, sigVars>>

\* sync() returns to main(): the startup call to line 747, the job to
\* schedule, which sets its next run
EndSync ==
    /\ running' = running \ {passNo}
    /\ IF trigger = "startup"
       THEN pc' = "scheduling" /\ nextRun' = nextRun
       ELSE pc' = "loop" /\ nextRun' = now + SyncInterval
    /\ UNCHANGED <<trigger, batch, cursor, passNo, fetched, handled, now, response>>
    /\ UNCHANGED <<ledgerVars, sigVars>>

\* line 744: the first sync, run by main() itself
StartupSync ==
    /\ pc = "start"
    /\ BeginSync("startup")

\* lines 747-798: the job is scheduled and the dashboard thread started
ScheduleJob ==
    /\ pc = "scheduling"
    /\ pc' = "loop"
    /\ nextRun' = now + SyncInterval
    /\ UNCHANGED <<trigger, batch, cursor, passNo, running, fetched, handled>>
    /\ UNCHANGED <<statusVars, now, response, ledgerVars, sigVars>>

\* lines 800-803: schedule.run_pending() finds the job due and calls sync()
RunPending ==
    /\ MainThreadFree(pc)
    /\ Due
    /\ passNo < MaxPasses
    /\ BeginSync("timer")

\* a loop that an exception leaves
NextCursorLeavingOnRaise(at, didRaise, size) == IF didRaise THEN size + 1 ELSE at + 1
\* lines 693-699: the except clause is inside the loop, which goes on
NextCursor(at, didRaise, size) == at + 1

\* lines 693-699: the next event of the batch, inside its try/except
HandleNextEvent ==
    /\ pc = "events"
    /\ cursor <= Len(batch)
    /\ \E st \in handle_event(Entry, batch[cursor]) :
        /\ workers' = st.workers
        /\ persons' = st.persons
        /\ issued' = st.issued
        /\ tombstonedBy' = TombstoneCauses(st.workers,
                                [kind |-> "handle_event", event |-> batch[cursor]])
        /\ handled' = Append(handled, [position |-> cursor, raised |-> st.raised])
        /\ cursor' = NextCursor(cursor, st.raised, Len(batch))
    /\ UNCHANGED <<before, lastOp, downloads, hikCalls, reports, raised, processed>>
    /\ UNCHANGED <<pc, trigger, batch, nextRun, passNo, running, fetched>>
    /\ UNCHANGED <<statusVars, now, response, sigVars>>

\* lines 701-703: the loop is over
FinishSync ==
    /\ pc = "events"
    /\ batch # <<>>
    /\ cursor > Len(batch)
    /\ last_sync_finished' = now
    /\ last_sync_error' = None
    /\ UNCHANGED last_sync_started
    /\ EndSync

\* lines 690-692: nothing to process
ReturnEmpty ==
    /\ pc = "events"
    /\ batch = <<>>
    /\ UNCHANGED statusVars
    /\ EndSync

\* lines 705-709: iterating what was fetched raised, the outer handler records it
FailSync ==
    /\ pc = "iterating"
    /\ last_sync_error' = NotIterableError
    /\ UNCHANGED <<last_sync_started, last_sync_finished>>
    /\ EndSync

\* time passes
Tick ==
    /\ now < MaxTime
    /\ now' = now + 1
    /\ UNCHANGED <<mainVars, statusVars, response, ledgerVars, sigVars>>

\* the dashboard thread exists once line 797 has run
DashboardUp == nextRun # None

\* a handler that clears the error it has shown
StatusResetsError(at) == None
\* DashboardHandler.do_GET leaves the controller's fields as they are
StatusKeeps(value) == value

\* what do_GET sends: the page, the JSON list or the JSON object, the two
\* others empty
Served(path, page, list, object) ==
    [done |-> TRUE, path |-> path, page |-> page, list |-> list, object |-> object]

NoObject == [last_sync_started |-> None, last_sync_finished |-> None,
             last_sync_error |-> None, count_workers |-> 0]

\* GET / : the page
GetIndex ==
    /\ DashboardUp
    /\ response' = Served("/", "HydePark Sync Dashboard", <<>>, NoObject)
    /\ UNCHANGED <<mainVars, statusVars, now, ledgerVars, sigVars>>

\* GET /api/workers : the ledger's list
GetWorkers ==
    /\ DashboardUp
    /\ response' = Served("/api/workers", "", workers, NoObject)
    /\ UNCHANGED <<mainVars, statusVars, now, ledgerVars, sigVars>>

\* GET /api/status : the controller's pass fields and the size of the ledger
GetStatus ==
    /\ DashboardUp
    /\ response' = Served("/api/status", "", <<>>,
                           [last_sync_started |-> last_sync_started,
                            last_sync_finished |-> last_sync_finished,
                            last_sync_error |-> last_sync_error,
                            count_workers |-> Len(workers)])
    /\ last_sync_error' = StatusKeeps(last_sync_error)
    /\ UNCHANGED <<last_sync_started, last_sync_finished>>
    /\ UNCHANGED <<mainVars, now, ledgerVars, sigVars>>

NextPass ==
    \/ StartupSync \/ ScheduleJob \/ RunPending
    \/ HandleNextEvent \/ FinishSync \/ ReturnEmpty \/ FailSync
    \/ Tick
    \/ GetIndex \/ GetWorkers \/ GetStatus

SpecPass == Init /\ [][NextPass]_vars

----------------------------------------------------------------------------
(* The directory operations called one by one                              *)

MaxPersons == 2

PersonIds == 1..MaxPersons

\* what requests.post, raise_for_status and response.json give: a JSON result
\* with its code, or an exception (transport failure, HTTP error, no JSON)
Exchanges ==
    { [raises |-> FALSE, code |-> "0"], [raises |-> FALSE, code |-> "1"],
      [raises |-> TRUE, code |-> ""] }

\* lines 270-295: the result handed to the operation
_make_request(exchange) ==
    IF exchange.raises THEN [code |-> "-1"] ELSE [code |-> exchange.code]

CodeIsZero(result) == result.code = "0"

DirectoryCall(op, exchange) == [kind |-> "directory", op |-> op, exchange |-> exchange]

CallAddPerson ==
    /\ lastOp = Idle
    /\ issued < MaxPersons
    /\ \E worker \in WorkerPayloadsOfTwo, exchange \in Exchanges :
        Leave(add_person(Entry, worker, CodeIsZero(_make_request(exchange))),
              DirectoryCall("add_person", exchange))

CallAddToPrivilegeGroup ==
    /\ lastOp = Idle
    /\ \E person_id \in PersonIds, exchange \in Exchanges :
        Leave(add_to_privilege_group(Entry, person_id, CodeIsZero(_make_request(exchange))),
              DirectoryCall("add_to_privilege_group", exchange))

CallUpdatePerson ==
    /\ lastOp = Idle
    /\ \E person_id \in PersonIds, worker \in WorkerPayloadsOfTwo, exchange \in Exchanges :
        Leave(update_person(Entry, person_id, worker, DefaultValidFrom, DefaultValidTo,
                            CodeIsZero(_make_request(exchange))),
              DirectoryCall("update_person", exchange))

CallDeletePersonFull ==
    /\ lastOp = Idle
    /\ \E person_id \in PersonIds, exchange \in Exchanges :
        Leave(delete_person_full(Entry, person_id, CodeIsZero(_make_request(exchange))),
              DirectoryCall("delete_person_full", exchange))

CallDeletePerson ==
    /\ lastOp = Idle
    /\ \E person_id \in PersonIds, exchange \in Exchanges :
        Leave(delete_person(Entry, person_id, CodeIsZero(_make_request(exchange))),
              DirectoryCall("delete_person", exchange))

NextDirectory ==
    \/ CallAddPerson
    \/ CallAddToPrivilegeGroup
    \/ CallUpdatePerson
    \/ CallDeletePersonFull
    \/ CallDeletePerson
    \/ Continue

SpecDirectory == Init /\ [][NextDirectory]_vars

----------------------------------------------------------------------------
(* Passes over a reachable directory that rejects updates of deleted ids   *)

\* the payloads whose validity bounds are dates or absent
DatedPayloads == { w \in WorkerPayloads : w.validFrom # None /\ w.validTo # None }

\* the directory holding the persons present answers the call: it refuses an
\* update addressed to a person it does not hold and serves everything else
DirectoryAnswers(present, call) ==
    call.ok <=> (call.op = "update_person" => call.personId \in present)

\* the runs of process_worker in which the images download and the directory,
\* holding st.persons on entry, answers
ReachableRuns(st, worker) ==
    { s \in process_worker(st, worker) :
        /\ \A i \in 1..Len(s.downloads) : s.downloads[i].ok
        /\ \A c \in 1..Len(s.hikCalls) : DirectoryAnswers(st.persons, s.hikCalls[c]) }

NoTombstone == \A i \in 1..Len(workers) : ~workers[i].hikcentral_deleted

\* a pass processes the worker as not blocked
ProvisionWorker ==
    /\ lastOp = Idle
    /\ \E worker \in DatedPayloads :
        /\ ~worker.blocked
        /\ \E st \in ReachableRuns(Entry, worker) :
            Leave(st, [kind |-> "process_worker", worker |-> worker,
                       again |-> FALSE, prevOk |-> FALSE])

\* a pass processes the worker as blocked; once the record is tombstoned the
\* worker is only processed as not blocked
BlockWorker ==
    /\ lastOp = Idle
    /\ NoTombstone
    /\ \E worker \in DatedPayloads :
        /\ worker.blocked
        /\ \E st \in ReachableRuns(Entry, worker) :
            Leave(st, [kind |-> "process_worker", worker |-> worker,
                       again |-> FALSE, prevOk |-> FALSE])

NextReprovision == ProvisionWorker \/ BlockWorker \/ Continue

\* the scheduler keeps running passes (schedule.every(...).do(controller.sync)
\* and the loop of main): a pass that can process the worker does
SpecReprovision ==
    Init /\ [][NextReprovision]_vars /\ WF_vars(ProvisionWorker) /\ WF_vars(Continue)

----------------------------------------------------------------------------
(* Vocabulary of the properties                                            *)

IsProcessWorker == lastOp.kind = "process_worker"
IsHandleEvent == lastOp.kind = "handle_event"

\* what the handler that ran last logged
Logged == [downloads |-> downloads, hikCalls |-> hikCalls, reports |-> reports]

AllSucceeded(log) ==
    /\ \A i \in 1..Len(log.downloads) : log.downloads[i].ok
    /\ \A i \in 1..Len(log.hikCalls) : log.hikCalls[i].ok
    /\ \A i \in 1..Len(log.reports) : log.reports[i].ok

ImagesDownloaded(log) ==
    /\ Len(log.downloads) = 2
    /\ log.downloads[1].ok
    /\ log.downloads[2].ok

CallsOf(calls, op) == { i \in 1..Len(calls) : calls[i].op = op }

RecordsOf(ws, national_id) == { i \in 1..Len(ws) : ws[i].nationalIdNumber = national_id }

Smaller(a, b) == IF a <= b THEN a ELSE b
Larger(a, b) == IF a >= b THEN a ELSE b

IsDate(v) == v # None /\ v # Missing

\* the same state with the logs of a finished call dropped
Cleared(st) == [st EXCEPT !.downloads = <<>>, !.hikCalls = <<>>, !.reports = <<>>,
                          !.raised = FALSE, !.processed = <<>>]

OkRuns(st, worker) == { s \in process_worker(Cleared(st), worker) : AllSucceeded(s) }

----------------------------------------------------------------------------
(* C1 *)

\* process_worker has run twice in succession on one payload, every call of
\* both runs succeeding
ReplayedWithSuccess ==
    /\ IsProcessWorker
    /\ lastOp.again
    /\ lastOp.prevOk
    /\ AllSucceeded(Logged)

\* C1: replay is idempotent. When process_worker has run twice in succession on
\* the same payload, every call succeeding, the ledger after the second run is
\* the ledger after the first run and the second run issued no add_person.
C1_ReplayIsIdempotent ==
    ReplayedWithSuccess =>
        /\ workers = before
        /\ CallsOf(hikCalls, "add_person") = {}

----------------------------------------------------------------------------
(* C2 *)

\* the handler that ran last processed workers as blocked
BlockedProcessing ==
    \/ IsProcessWorker /\ lastOp.worker.blocked
    \/ IsHandleEvent /\ lastOp.event.type \in BlockTypes

DeletionProcessing == IsHandleEvent /\ lastOp.event.type \in DeleteTypes

\* record i was tombstoned by a blocked processing before the handler that ran last
TombstonedByBlock(i) ==
    /\ i \in 1..Len(before)
    /\ before[i].hikcentral_deleted
    /\ tombstonedBy[i] = "blocked"

NoDeleteCallFor(person_id) ==
    \A c \in CallsOf(hikCalls, "delete_person_full") : hikCalls[c].personId # person_id

\* C2 as claimed: a record tombstoned after a blocked processing sees no further
\* delete_person_full for its remote id from any later processing, be it
\* process_worker with blocked=true, a block-type event or a deletion-type event.
C2_NoSecondDeleteByAnyProcessing ==
    \A i \in 1..Len(before) :
        (TombstonedByBlock(i) /\ (BlockedProcessing \/ DeletionProcessing)) =>
            NoDeleteCallFor(before[i].hikcentral_id)

\* C2 as amended: a record tombstoned after a blocked processing sees no further
\* delete_person_full for its remote id from a later process_worker with
\* blocked=true or a later block-type event, while it stays tombstoned.
C2_NoSecondDeleteByBlockedProcessing ==
    \A i \in 1..Len(before) :
        (TombstonedByBlock(i) /\ BlockedProcessing) =>
            NoDeleteCallFor(before[i].hikcentral_id)

\* a block-type event has processed the worker of a record a blocked processing tombstoned
C2_Witness ==
    /\ IsHandleEvent
    /\ lastOp.event.type \in BlockTypes
    /\ \E i \in 1..Len(before) :
        /\ TombstonedByBlock(i)
        /\ \E k \in 1..Len(lastOp.event.workers) :
            lastOp.event.workers[k].nationalIdNumber = before[i].nationalIdNumber
    /\ reports # <<>>

----------------------------------------------------------------------------
(* C3 *)

\* the state process_worker was entered in, when it then created one person
EntryBeforeAdd == [Entry EXCEPT !.workers = before, !.persons = persons \ {issued},
                                !.issued = issued - 1]

WindowOf(ws, national_id) ==
    LET i == IndexByNationalId(ws, national_id)
    IN  <<ws[i].validFrom, ws[i].validTo>>

\* C3: window-merge commutativity. When process_worker has just created the
\* ledger entry of a national id from a payload with window [A,B], every call
\* succeeding, then processing the worker with any window [C,D], every call
\* succeeding, leaves the entry with [min(A,C), max(B,D)]; and had [C,D] been
\* processed first and [A,B] second, the entry would hold the same window.
C3_WindowMergeCommutes ==
    (/\ IsProcessWorker
     /\ ~lastOp.worker.blocked
     /\ RecordsOf(before, lastOp.worker.nationalIdNumber) = {}
     /\ IsDate(lastOp.worker.validFrom) /\ IsDate(lastOp.worker.validTo)
     /\ AllSucceeded(Logged)
     /\ CallsOf(hikCalls, "add_person") # {}) =>
        \A i \in WorkerIds, C \in Dates, D \in Dates :
            LET first == lastOp.worker
                second == [first EXCEPT !.id = i, !.validFrom = C, !.validTo = D]
                merged == <<Smaller(first.validFrom, C), Larger(first.validTo, D)>>
            IN  /\ \A s2 \in OkRuns(Entry, second) :
                    WindowOf(s2.workers, first.nationalIdNumber) = merged
                /\ \A s1 \in OkRuns(EntryBeforeAdd, second) :
                    \A s2 \in OkRuns(s1, first) :
                        WindowOf(s2.workers, first.nationalIdNumber) = merged

\* a second window has been merged into the window the entry was created with,
\* and the merged window is neither of the two
C3_Witness ==
    /\ IsProcessWorker
    /\ ~lastOp.worker.blocked
    /\ AllSucceeded(Logged)
    /\ CallsOf(hikCalls, "update_person") # {}
    /\ IsDate(lastOp.worker.validFrom) /\ IsDate(lastOp.worker.validTo)
    /\ before # <<>>
    /\ WindowOf(workers, lastOp.worker.nationalIdNumber)
            # WindowOf(before, lastOp.worker.nationalIdNumber)
    /\ WindowOf(workers, lastOp.worker.nationalIdNumber)
            # <<lastOp.worker.validFrom, lastOp.worker.validTo>>

----------------------------------------------------------------------------
(* C4 *)

LiveRecordsOf(ws, national_id) ==
    { i \in RecordsOf(ws, national_id) : ws[i].hikcentral_id # None /\ ~ws[i].hikcentral_deleted }

\* C4: every national id has at most one ledger record that carries a
\* hikcentral_id and is not tombstoned.
C4_OneLiveRecordPerNationalId ==
    \A n \in TwoNationalIds : Cardinality(LiveRecordsOf(workers, n)) <= 1

\* with a live record for each of two national ids in the ledger, the worker of
\* the second record has been processed as not blocked under another upstream
\* worker id, every call succeeding
C4_Witness ==
    /\ IsProcessWorker
    /\ ~lastOp.worker.blocked
    /\ AllSucceeded(Logged)
    /\ hikCalls # <<>>
    /\ Len(before) = 2
    /\ LiveRecordsOf(before, before[1].nationalIdNumber) = {1}
    /\ LiveRecordsOf(before, lastOp.worker.nationalIdNumber) = {2}
    /\ before[2].id # lastOp.worker.id
    /\ Cardinality(LiveRecordsOf(workers, lastOp.worker.nationalIdNumber)) = 1

----------------------------------------------------------------------------
(* C5 *)

\* C5: reprocessing a worker whose id the ledger already records, with the
\* payload of its previous processing (same blocked flag, name and window),
\* issues no directory call and leaves the ledger unchanged.
C5_ReprocessingIsNoOp ==
    (/\ IsProcessWorker
     /\ lastOp.again
     /\ is_worker_processed(before, lastOp.worker.id)) =>
        /\ hikCalls = <<>>
        /\ workers = before

----------------------------------------------------------------------------
(* C6 *)

\* C6: process_worker with blocked=true for a national id without ledger entry
\* creates a ledger record marked blocked, reports 'blocked' for the worker and
\* issues no directory call.
C6_BlockedNewWorkerIsOnlyRecorded ==
    (/\ IsProcessWorker
     /\ lastOp.worker.blocked
     /\ RecordsOf(before, lastOp.worker.nationalIdNumber) = {}) =>
        /\ hikCalls = <<>>
        /\ \E i \in RecordsOf(workers, lastOp.worker.nationalIdNumber) : workers[i].blocked
        /\ \E k \in 1..Len(reports) :
            reports[k].workerId = lastOp.worker.id /\ reports[k].status = "blocked"

----------------------------------------------------------------------------
(* C7 *)

\* the ledger entry process_worker found for the payload's national id
FoundEntry == before[IndexByNationalId(before, lastOp.worker.nationalIdNumber)]

EntryNow == workers[IndexByNationalId(workers, lastOp.worker.nationalIdNumber)]

HasEntry == RecordsOf(before, lastOp.worker.nationalIdNumber) # {}

\* C7: process_worker with blocked=true for a national id whose entry has a
\* hikcentral_id and is not tombstoned issues exactly one delete_person_full,
\* for that id, and when it succeeds the entry is blocked and tombstoned and
\* 'blocked' is reported upstream for the worker.
C7_BlockedLiveWorkerIsDeleted ==
    (/\ IsProcessWorker
     /\ lastOp.worker.blocked
     /\ HasEntry
     /\ FoundEntry.hikcentral_id # None
     /\ ~FoundEntry.hikcentral_deleted) =>
        /\ Cardinality(CallsOf(hikCalls, "delete_person_full")) = 1
        /\ \A c \in CallsOf(hikCalls, "delete_person_full") :
            /\ hikCalls[c].personId = FoundEntry.hikcentral_id
            /\ hikCalls[c].ok =>
                /\ EntryNow.blocked
                /\ EntryNow.hikcentral_deleted
                /\ \E k \in 1..Len(reports) :
                    /\ reports[k].workerId = lastOp.worker.id
                    /\ reports[k].status = "blocked"

\* a blocked worker with a live entry has been deleted from the directory
C7_Witness ==
    /\ IsProcessWorker
    /\ lastOp.worker.blocked
    /\ HasEntry
    /\ ~FoundEntry.hikcentral_deleted
    /\ \E c \in CallsOf(hikCalls, "delete_person_full") : hikCalls[c].ok
    /\ EntryNow.hikcentral_deleted
    /\ FoundEntry.hikcentral_id \notin persons

----------------------------------------------------------------------------
(* C8 *)

\* C8: process_worker with blocked=true for a national id whose entry is
\* already tombstoned makes no directory call, keeps the entry tombstoned and
\* reports 'blocked' upstream exactly once.
C8_BlockedTombstonedOnlyReports ==
    (/\ IsProcessWorker
     /\ lastOp.worker.blocked
     /\ HasEntry
     /\ FoundEntry.hikcentral_deleted) =>
        /\ hikCalls = <<>>
        /\ EntryNow.hikcentral_deleted
        /\ Len(reports) = 1
        /\ reports[1].workerId = lastOp.worker.id
        /\ reports[1].status = "blocked"

\* a blocked worker whose entry was already tombstoned has been processed
C8_Witness ==
    /\ IsProcessWorker
    /\ lastOp.worker.blocked
    /\ HasEntry
    /\ FoundEntry.hikcentral_deleted
    /\ Len(reports) = 1

----------------------------------------------------------------------------
(* C9 *)

\* the window the update is to carry: the stored bound merged with the incoming
\* one, a bound the payload lacks counting as the stored one
MergedFrom ==
    Smaller(FoundEntry.validFrom,
            IF lastOp.worker.validFrom = Missing THEN FoundEntry.validFrom
            ELSE lastOp.worker.validFrom)
MergedTo ==
    Larger(FoundEntry.validTo,
           IF lastOp.worker.validTo = Missing THEN FoundEntry.validTo
           ELSE lastOp.worker.validTo)

UpdatesWithMergedWindow ==
    /\ CallsOf(hikCalls, "add_person") = {}
    /\ Cardinality(CallsOf(hikCalls, "update_person")) = 1
    /\ \A c \in CallsOf(hikCalls, "update_person") :
        /\ hikCalls[c].personId = FoundEntry.hikcentral_id
        /\ hikCalls[c].beginTime = <<MergedFrom, "T00:00:00">>
        /\ hikCalls[c].endTime = <<MergedTo, "T23:59:59">>
        /\ hikCalls[c].ok =>
            /\ EntryNow.validFrom = MergedFrom
            /\ EntryNow.validTo = MergedTo
            /\ ~EntryNow.blocked
            /\ ~EntryNow.hikcentral_deleted
            /\ \E k \in 1..Len(reports) :
                /\ reports[k].workerId = lastOp.worker.id
                /\ reports[k].status = "approved"
                /\ reports[k].externalId = FoundEntry.hikcentral_id

\* C9: process_worker with blocked=false for a national id whose entry has a
\* hikcentral_id issues update_person for that id and no add_person, with the
\* merged window [min, max] of the stored and incoming bounds; when the update
\* succeeds the entry stores the merged window with blocked and tombstone
\* cleared and 'approved' is reported with the remote id. Stated for the runs
\* that got as far as the directory, both images downloaded.
C9_UpdateIsIssued ==
    (/\ IsProcessWorker
     /\ ~lastOp.worker.blocked
     /\ HasEntry
     /\ FoundEntry.hikcentral_id # None
     /\ ImagesDownloaded(Logged)) =>
        UpdatesWithMergedWindow

----------------------------------------------------------------------------
(* C10 *)

CreatesAndKeepsPerson ==
    /\ Cardinality(CallsOf(hikCalls, "add_person")) = 1
    /\ \A c \in CallsOf(hikCalls, "add_person") :
        hikCalls[c].ok =>
            /\ \E i \in RecordsOf(workers, lastOp.worker.nationalIdNumber) :
                workers[i].hikcentral_id = hikCalls[c].personId
            /\ \E k \in 1..Len(reports) :
                /\ reports[k].workerId = lastOp.worker.id
                /\ reports[k].status = "approved"
                /\ reports[k].externalId = hikCalls[c].personId
            /\ hikCalls[c].personId \in persons
            /\ CallsOf(hikCalls, "delete_person_full") = {}
            /\ CallsOf(hikCalls, "delete_person") = {}

\* C10 as claimed: process_worker with blocked=false for a national id without
\* ledger entry issues add_person; when it succeeds a ledger entry holding the
\* returned id is persisted and 'approved' is reported, whatever
\* add_to_privilege_group returns, and the created person is not deleted.
C10_AddIsAlwaysIssued ==
    (/\ IsProcessWorker
     /\ ~lastOp.worker.blocked
     /\ ~HasEntry) =>
        CreatesAndKeepsPerson

\* C10 as amended: the same, once both image downloads of the run have succeeded.
C10_AddAfterDownloads ==
    (/\ IsProcessWorker
     /\ ~lastOp.worker.blocked
     /\ ~HasEntry
     /\ ImagesDownloaded(Logged)) =>
        CreatesAndKeepsPerson

\* a person was created and recorded although the privilege group refused it
C10_Witness ==
    /\ IsProcessWorker
    /\ ~lastOp.worker.blocked
    /\ ~HasEntry
    /\ \E c \in CallsOf(hikCalls, "add_person") : hikCalls[c].ok
    /\ \E c \in CallsOf(hikCalls, "add_to_privilege_group") : ~hikCalls[c].ok
    /\ RecordsOf(workers, lastOp.worker.nationalIdNumber) # {}

----------------------------------------------------------------------------
(* C11 *)

\* the positions of the event's worker payloads whose national id the ledger
\* knew with a hikcentral_id when handle_event was entered
KnownEventWorkers ==
    { k \in 1..Len(lastOp.event.workers) :
        LET ex == IndexByNationalId(before, lastOp.event.workers[k].nationalIdNumber)
        IN  ex # 0 /\ before[ex].hikcentral_id # None }

\* C11: for each worker payload of a deletion/revocation-type event whose
\* national id has a ledger entry with a hikcentral_id, handle_event issues
\* delete_person_full for that remote id (one call per such payload) and leaves
\* the entry blocked and tombstoned, whatever the entry's blocked state was and
\* whatever upstream worker id the payload carries.
C11_DeletionEventDeletesAndTombstones ==
    DeletionProcessing =>
        /\ Cardinality(CallsOf(hikCalls, "delete_person_full")) = Cardinality(KnownEventWorkers)
        /\ \A k \in KnownEventWorkers :
            LET ex == IndexByNationalId(before, lastOp.event.workers[k].nationalIdNumber)
            IN  /\ \E c \in CallsOf(hikCalls, "delete_person_full") :
                        hikCalls[c].personId = before[ex].hikcentral_id
                /\ workers[ex].blocked
                /\ workers[ex].hikcentral_deleted

\* a deletion event with two payloads, under an upstream worker id the ledger
\* does not hold, has deleted twice and tombstoned an entry that was not blocked
C11_Witness ==
    /\ DeletionProcessing
    /\ Cardinality(KnownEventWorkers) = 2
    /\ Len(hikCalls) = 2
    /\ \E k \in KnownEventWorkers :
        LET ex == IndexByNationalId(before, lastOp.event.workers[k].nationalIdNumber)
        IN  /\ ~before[ex].blocked
            /\ ~before[ex].hikcentral_deleted
            /\ before[ex].id # lastOp.event.workers[k].workerId
            /\ workers[ex].hikcentral_deleted

----------------------------------------------------------------------------
(* C12 *)

\* the event's worker payloads as process_worker is to receive them, the
\* blocked flag forced to flag
ForcedPayloads(flag) ==
    [k \in 1..Len(lastOp.event.workers) |->
        [_map_event_worker(lastOp.event.workers[k]) EXCEPT !.blocked = flag]]

\* C12: handle_event chooses the branch by the event type alone. Every worker
\* of a creation/unblock-type event is processed with blocked=false and every
\* worker of a block-type event with blocked=true, whatever flag the payload
\* carries; an event of an unrecognized type causes no directory call, no
\* upstream report and no ledger change.
C12_BranchByEventTypeAlone ==
    IsHandleEvent =>
        /\ lastOp.event.type \in CreateTypes => processed = ForcedPayloads(FALSE)
        /\ lastOp.event.type \in BlockTypes => processed = ForcedPayloads(TRUE)
        /\ lastOp.event.type \notin (CreateTypes \cup BlockTypes \cup DeleteTypes) =>
            /\ processed = <<>>
            /\ hikCalls = <<>>
            /\ reports = <<>>
            /\ workers = before

----------------------------------------------------------------------------
(* C13 *)

NL == <<"\n">>

\* the seven lines that are always signed, from Content-Type on
SignedTail ==
    <<sigIn.content_type>> \o NL \o <<"x-ca-key:", sigIn.app_key>> \o NL
    \o <<"x-ca-nonce:", sigIn.nonce>> \o NL
    \o <<"x-ca-timestamp:", sigIn.timestamp>> \o NL \o <<sigIn.uri>>

\* C13: the string-to-sign is method, Accept, Content-MD5, Content-Type,
\* 'x-ca-key:'+appKey, 'x-ca-nonce:'+nonce, 'x-ca-timestamp:'+timestamp and the
\* signing URI joined by newlines in that order, the Content-MD5 line left out
\* (no empty line in its place) exactly when the body is empty; for an empty
\* body it is the string build_string_to_sign builds from the same values.
C13_StringToSign ==
    sigOut.done =>
        /\ sigIn.body = "" =>
            /\ sigOut.string_to_sign =
                    <<sigIn.method>> \o NL \o <<sigIn.accept>> \o NL \o SignedTail
            /\ testOut.done => testOut.string_to_sign = sigOut.string_to_sign
        /\ sigIn.body # "" =>
            /\ sigOut.string_to_sign =
                    <<sigIn.method>> \o NL \o <<sigIn.accept>> \o NL
                    \o <<Base64Md5(sigIn.body)>> \o NL \o SignedTail
            /\ testOut.done => testOut.string_to_sign # sigOut.string_to_sign

\* a request without body has been signed and the test script has built its string
C13_Witness ==
    /\ sigOut.done
    /\ testOut.done
    /\ sigIn.body = ""
    /\ Len(sigOut.string_to_sign) = 16

----------------------------------------------------------------------------
(* C14 *)

\* C14: reconciliation passes never overlap. At most one sync() execution is
\* in flight at any time; while one is in flight a due job is not started; and
\* a timer-triggered pass is in flight only after the startup pass, the first
\* execution, has returned.
C14_PassesNeverOverlap ==
    /\ Cardinality(running) <= 1
    /\ running # {} => running = {passNo}
    /\ (running # {} /\ trigger = "timer") => (passNo > 1 /\ 1 \notin running)
    /\ (running # {} /\ trigger = "startup") => passNo = 1

\* a whole further interval has elapsed while a timer-triggered pass is in
\* flight, and the pass is still the only one
C14_Witness ==
    /\ running # {}
    /\ trigger = "timer"
    /\ pc = "events"
    /\ cursor <= Len(batch)
    /\ now >= nextRun + SyncInterval
    /\ passNo < MaxPasses

----------------------------------------------------------------------------
(* C15 *)

\* sync() has returned to main()
PassReturned == passNo > 0 /\ running = {}

\* C15: an exception raised while handling one event never aborts the pass.
\* The events of the fetched batch are handled one after the other in batch
\* order, whatever the earlier ones raised, and a pass over a batch with events
\* returns having recorded its end and no error.
C15_EventExceptionDoesNotAbortPass ==
    /\ \A k \in 1..Len(handled) : handled[k].position = k
    /\ (running # {} /\ pc = "events") => Len(handled) = cursor - 1
    /\ (PassReturned /\ batch # <<>>) =>
        /\ Len(handled) = Len(batch)
        /\ last_sync_finished # None
        /\ last_sync_finished >= last_sync_started
        /\ last_sync_error = None

\* a pass has returned after its first event raised and its second was handled
C15_Witness ==
    /\ PassReturned
    /\ Len(batch) = 2
    /\ Len(handled) = 2
    /\ handled[1].raised
    /\ ~handled[2].raised
    /\ last_sync_finished >= last_sync_started

----------------------------------------------------------------------------
(* C16 *)

\* C16: when the pending-events fetch fails, the pass processes no item and
\* records the failure as its error: after the pass last_sync_error is not
\* empty; and the job stays scheduled for the next tick.
C16_FetchFailureIsRecorded ==
    (PassReturned /\ fetched = "failed") =>
        /\ handled = <<>>
        /\ last_sync_error # None
        /\ pc = "loop" => nextRun # None

----------------------------------------------------------------------------
(* C17 *)

\* C17: the status surface only reads. A step in which the dashboard thread
\* serves a request (GET /, /api/workers or /api/status) leaves the ledger and
\* the controller's three pass-status fields as they were, also while a pass is
\* in flight; so the requests do not change what a pass leaves behind.
C17_StatusSurfaceOnlyReads ==
    [][(response'.done /\ response' # response) =>
            /\ workers' = workers
            /\ persons' = persons
            /\ last_sync_started' = last_sync_started
            /\ last_sync_finished' = last_sync_finished
            /\ last_sync_error' = last_sync_error
            /\ UNCHANGED mainVars]_vars

\* /api/status has been served in the middle of a timer-triggered pass that has
\* already changed the ledger, after an earlier pass had recorded an error
C17_Witness ==
    /\ running # {}
    /\ pc = "events"
    /\ cursor = 2
    /\ Len(batch) = 2
    /\ workers # <<>>
    /\ response.done
    /\ response.path = "/api/status"
    /\ response.object.last_sync_started = last_sync_started
    /\ response.object.count_workers = Len(workers)
    /\ last_sync_error # None

----------------------------------------------------------------------------
(* C18 *)

\* C18: the stored validity window never shrinks. Whatever process_worker is
\* called with, a ledger record whose window bounds are dates keeps a validFrom
\* that is a date not later than before and a validTo that is a date not
\* earlier than before.
C18_WindowNeverShrinks ==
    IsProcessWorker =>
        \A i \in 1..Len(before) :
            /\ IsDate(before[i].validFrom) =>
                (IsDate(workers[i].validFrom) /\ workers[i].validFrom <= before[i].validFrom)
            /\ IsDate(before[i].validTo) =>
                (IsDate(workers[i].validTo) /\ workers[i].validTo >= before[i].validTo)

\* a submission with a window shorter on both sides has updated the person and
\* the entry holds the window it held
C18_Witness ==
    /\ IsProcessWorker
    /\ ~lastOp.worker.blocked
    /\ HasEntry
    /\ IsDate(lastOp.worker.validFrom) /\ IsDate(lastOp.worker.validTo)
    /\ IsDate(FoundEntry.validFrom) /\ IsDate(FoundEntry.validTo)
    /\ lastOp.worker.validFrom > FoundEntry.validFrom
    /\ lastOp.worker.validTo < FoundEntry.validTo
    /\ \E c \in CallsOf(hikCalls, "update_person") : hikCalls[c].ok
    /\ EntryNow.validFrom = FoundEntry.validFrom
    /\ EntryNow.validTo = FoundEntry.validTo

----------------------------------------------------------------------------
(* C19 *)

\* the entry the ledger held for the event's first worker
FirstWorkerEntry == IndexByNationalId(before, lastOp.event.workers[1].nationalIdNumber)

\* C19: a creation/unblock-type event for a worker whose national id already
\* has an entry with a hikcentral_id issues update_person for that remote id
\* and, when the update succeeds, leaves the entry not blocked and not
\* tombstoned and reports 'approved'. Stated for the event's first worker, its
\* two images downloaded.
C19_CreationEventUpdatesKnownWorker ==
    (/\ IsHandleEvent
     /\ lastOp.event.type \in CreateTypes
     /\ 1 \in KnownEventWorkers
     /\ Len(downloads) >= 2
     /\ downloads[1].ok /\ downloads[2].ok) =>
        \E c \in CallsOf(hikCalls, "update_person") :
            /\ hikCalls[c].personId = before[FirstWorkerEntry].hikcentral_id
            /\ hikCalls[c].ok =>
                /\ ~workers[FirstWorkerEntry].blocked
                /\ ~workers[FirstWorkerEntry].hikcentral_deleted
                /\ \E k \in 1..Len(reports) :
                    /\ reports[k].workerId = lastOp.event.workers[1].workerId
                    /\ reports[k].status = "approved"

----------------------------------------------------------------------------
(* C20 *)

\* C20: every pass records both its start and its end. After sync() has
\* returned, whatever it fetched, last_sync_started and last_sync_finished are
\* those of that pass, the end not older than the start, and last_sync_error
\* holds that pass's error, or nothing when it had none.
C20_PassRecordsStartAndEnd ==
    PassReturned =>
        /\ last_sync_started # None
        /\ last_sync_finished # None
        /\ last_sync_finished >= last_sync_started
        /\ fetched = "garbled" => last_sync_error # None
        /\ fetched # "garbled" => last_sync_error = None

----------------------------------------------------------------------------
(* C21 *)

\* an image download of the run failed
DownloadFailed == \E i \in 1..Len(downloads) : ~downloads[i].ok

\* the directory call the branch decides on (add_person, update_person or
\* delete_person_full) failed
BranchCallFailed ==
    \E c \in CallsOf(hikCalls, "add_person") \cup CallsOf(hikCalls, "update_person")
             \cup CallsOf(hikCalls, "delete_person_full") : ~hikCalls[c].ok

\* the decision process_worker takes for a payload on a ledger
DecisionOn(ws, worker) ==
    LET ex == get_worker_by_national_id(ws, worker.nationalIdNumber)
    IN  IF worker.blocked /\ ex # 0
        THEN IF IsTombstoned(ws[ex]) THEN "report blocked"
             ELSE IF HasRemoteId(ws[ex]) THEN "delete" ELSE "mark blocked"
        ELSE IF ex # 0 /\ HasRemoteId(ws[ex]) THEN "update" ELSE "add"

\* C21: when process_worker's image download fails, or the directory call of
\* its branch (add_person, update_person, delete_person_full) fails, the ledger
\* is left as it was and no status is reported upstream, so the same payload
\* meets the same decision on the next pass.
C21_FailureLeavesLedgerAndUpstream ==
    (/\ IsProcessWorker
     /\ DownloadFailed \/ BranchCallFailed) =>
        /\ workers = before
        /\ reports = <<>>
        /\ DecisionOn(workers, lastOp.worker) = DecisionOn(before, lastOp.worker)

\* the update of a known worker was refused by the directory
C21_Witness ==
    /\ IsProcessWorker
    /\ HasEntry
    /\ ImagesDownloaded(Logged)
    /\ \E c \in CallsOf(hikCalls, "update_person") : ~hikCalls[c].ok
    /\ workers = before
    /\ reports = <<>>

----------------------------------------------------------------------------
(* C22 *)

IsDirectoryCall == lastOp.kind = "directory"

\* C22: every exposed directory operation (add_person, update_person,
\* delete_person_full, add_to_privilege_group, delete_person) tells its caller
\* that it succeeded exactly when the response code is '0': on a non-zero code
\* or a transport failure add_person returns no id and the others return false.
C22_FailureIsReported ==
    IsDirectoryCall =>
        \A c \in 1..Len(hikCalls) :
            /\ hikCalls[c].success <=> CodeIsZero(_make_request(lastOp.exchange))
            /\ (hikCalls[c].op = "add_person" /\ ~hikCalls[c].success) =>
                    hikCalls[c].personId = None

----------------------------------------------------------------------------
(* C23 *)

ReportFailed == \E k \in 1..Len(reports) : ~reports[k].ok

\* the program state the handler that ran last was entered in: the directory
\* had handed out the ids before those of the run's successful add_person calls
EntryBefore ==
    [workers |-> before, persons |-> persons,
     issued |-> issued - Cardinality({ c \in CallsOf(hikCalls, "add_person") : hikCalls[c].ok }),
     downloads |-> <<>>, hikCalls |-> <<>>, reports |-> <<>>, raised |-> FALSE,
     processed |-> <<>>]

\* the runs of the same call in which the downloads and the directory calls
\* ended as they did, and every report reached the registry
TwinsWithReportsDelivered ==
    { s \in process_worker(EntryBefore, lastOp.worker) :
        /\ s.downloads = downloads
        /\ s.hikCalls = hikCalls
        /\ Len(s.reports) = Len(reports)
        /\ \A k \in 1..Len(s.reports) : s.reports[k].ok }

\* C23: after a process_worker call in which update_worker_status failed, the
\* ledger is what it is after the same call with the report delivered: the
\* failure neither changes the ledger nor rolls it back.
C23_FailedReportKeepsLedger ==
    (IsProcessWorker /\ ReportFailed) =>
        /\ TwinsWithReportsDelivered # {}
        /\ \A s \in TwinsWithReportsDelivered : s.workers = workers

\* a worker was added to the ledger and the report of it failed
C23_Witness ==
    /\ IsProcessWorker
    /\ ReportFailed
    /\ Len(workers) > Len(before)

----------------------------------------------------------------------------
(* C24 *)

\* the national ids of the payloads that were processed under a worker id
NationalIdsOf(worker_id) ==
    { processed[j].nationalIdNumber :
        j \in { n \in 1..Len(processed) : processed[n].id = worker_id } }

\* the ledger a report was made on holds the outcome the report tells
LedgerHeld(report) ==
    \E i \in 1..Len(report.ledger) :
        LET rec == report.ledger[i]
        IN  /\ rec.nationalIdNumber \in NationalIdsOf(report.workerId)
            /\ IF report.status = "approved"
               THEN /\ rec.hikcentral_id = report.externalId
                    /\ rec.hikcentral_id # None
                    /\ rec.status = "approved"
                    /\ ~rec.blocked
                    /\ ~rec.hikcentral_deleted
               ELSE /\ rec.blocked
                    /\ rec.hikcentral_id = report.externalId

\* C24: upstream is told about an outcome only after the ledger holds it: when
\* update_worker_status is called the ledger write of the branch has been made,
\* and for every 'approved' report with externalId X the ledger at the time of
\* the call (and at the end of the handler) has a record of the worker's
\* national id whose hikcentral_id is X.
C24_LedgerWrittenBeforeReport ==
    \A k \in 1..Len(reports) :
        /\ LedgerHeld(reports[k])
        /\ reports[k].status = "approved" =>
            \E i \in 1..Len(workers) :
                /\ workers[i].nationalIdNumber \in NationalIdsOf(reports[k].workerId)
                /\ workers[i].hikcentral_id = reports[k].externalId

\* an update of a known worker was reported as approved
C24_Witness ==
    /\ IsProcessWorker
    /\ HasEntry
    /\ \E c \in CallsOf(hikCalls, "update_person") : hikCalls[c].ok
    /\ \E k \in 1..Len(reports) :
        /\ reports[k].status = "approved"
        /\ reports[k].ledger # before

----------------------------------------------------------------------------
(* C25 *)

\* every record of the ledger ws is still in the ledger ws2, at its position,
\* for the same worker id, national id and person id
RecordsStay(ws, ws2) ==
    /\ Len(ws2) >= Len(ws)
    /\ \A i \in 1..Len(ws) :
        /\ ws2[i].id = ws[i].id
        /\ ws2[i].nationalIdNumber = ws[i].nationalIdNumber
        /\ ws2[i].hikcentral_id = ws[i].hikcentral_id

\* C25: ledger records are never removed: over any sequence of process_worker
\* and handle_event calls the record list only grows or keeps its length and
\* each record stays in it; blocking or deleting a worker only sets flags.
C25_RecordsAreNeverRemoved == [][RecordsStay(workers, workers')]_vars

\* two records are in the ledger and one of them has been tombstoned
C25_Witness ==
    /\ Len(workers) = 2
    /\ Len(before) = 2
    /\ \E i \in 1..2 : workers[i].hikcentral_deleted /\ ~before[i].hikcentral_deleted

----------------------------------------------------------------------------
(* C26 *)

\* the records the handler that ran last appended to the ledger
NewRecords == { i \in 1..Len(workers) : i > Len(before) }

\* the record was made from a successful add_person for its national id and
\* holds the person id that call returned
CreatedByAddPerson(rec) ==
    \E c \in CallsOf(hikCalls, "add_person") :
        /\ hikCalls[c].ok
        /\ hikCalls[c].personCode = rec.nationalIdNumber
        /\ hikCalls[c].personId = rec.hikcentral_id

\* C26: starting from an empty ledger, every ledger record has a non-empty
\* hikcentral_id: a record is appended only with the id a successful add_person
\* returned for it, and no later operation changes the record's hikcentral_id.
C26_RecordHoldsCreatedPersonId ==
    /\ \A i \in 1..Len(workers) :
        /\ workers[i].hikcentral_id # None
        /\ workers[i].hikcentral_id \in 1..issued
    /\ \A i \in NewRecords : CreatedByAddPerson(workers[i])
    /\ \A i \in 1..Len(before) :
        /\ i <= Len(workers)
        /\ workers[i].hikcentral_id = before[i].hikcentral_id

\* a record made by an earlier call went through a block and keeps its id
C26_Witness ==
    /\ IsProcessWorker
    /\ lastOp.worker.blocked
    /\ Len(before) = 1
    /\ ~before[1].hikcentral_deleted
    /\ workers[1].hikcentral_deleted
    /\ workers[1].hikcentral_id = before[1].hikcentral_id
    /\ workers[1].hikcentral_id # None

----------------------------------------------------------------------------
(* C27 *)

\* C27: tombstone soundness: in every reachable state the person of a ledger
\* record with hikcentral_deleted=true is no longer in the directory; neither
\* the blocked path nor the deletion-event path sets the flag after a
\* delete_person_full that failed.
C27_TombstoneIsSound ==
    \A i \in 1..Len(workers) :
        workers[i].hikcentral_deleted => workers[i].hikcentral_id \notin persons

----------------------------------------------------------------------------
(* C28 *)

TombstonedRecord == \E i \in 1..Len(workers) : workers[i].hikcentral_deleted

Reprovisioned ==
    \E i \in 1..Len(workers) :
        /\ ~workers[i].hikcentral_deleted
        /\ workers[i].hikcentral_id \in persons

\* C28: with a directory that rejects updates addressed to a deleted person id,
\* is reachable, and with images that download, a worker whose record was
\* tombstoned by a block and who is then processed as not blocked pass after
\* pass eventually has a live person in the directory and a ledger record with
\* hikcentral_deleted=false.
C28_TombstonedWorkerIsReprovisioned == TombstonedRecord ~> Reprovisioned

----------------------------------------------------------------------------
(* C29 *)

\* C29: per-worker isolation inside an event: when an exception is raised
\* while one worker payload of an event is processed, the remaining payloads
\* of that event are still processed in the same pass, so every payload of the
\* event has been passed to process_worker when handle_event is left.
C29_ExceptionSparesOtherWorkers ==
    (/\ IsHandleEvent
     /\ lastOp.event.type \in CreateTypes \cup BlockTypes
     /\ raised) =>
        /\ Len(processed) = Len(lastOp.event.workers)
        /\ \A i \in 1..Len(lastOp.event.workers) :
            /\ i <= Len(processed)
            /\ processed[i].id = lastOp.event.workers[i].workerId

====
